---- MODULE Spec2Model ----
(***************************************************************************)
(* PermissionsCollection (permissionsCollection.js): an ordered list of    *)
(* PermissionEntity objects about one ACO, built by the constructor and    *)
(* changed by push and addOrReplace.                                       *)
(*                                                                         *)
(* A member is a record [id, aco, aro, type, obj].  obj is the identity of *)
(* the JavaScript object held in the slot: "own" for an entity the         *)
(* collection created itself (new PermissionEntity in push), "caller" for  *)
(* the very object the caller handed in.  Error positions are 0-based as   *)
(* in the source: position i is items[i + 1].                              *)
(*                                                                         *)
(* Spec is the collection under constructor, push and addOrReplace calls.  *)
(* SpecUnion is PermissionsCollection.unionByAcoAndType on two collections.*)
(* SpecFolder is FolderModel (folderModel.js), one operation at a time,    *)
(* each await a step, each remote call succeeding or failing.  SpecExport  *)
(* is ResourceExportController.exec against what progressController.js    *)
(* exports.  SpecProgress is the progress controller itself: calls of      *)
(* start, complete, update and updateGoals and the events each one emits.  *)
(***************************************************************************)
EXTENDS Integers, Sequences, FiniteSets, TLC

\* ------------------------------------------------------------------ bounds
\* Longest list of records given to the constructor.
MaxDtos == 2

\* ------------------------------------------------------------- value sets
NoId == "none"
IdSet == {"p1", "p2"}
AcoSet == {<<"Folder", "f1">>, <<"Folder", "f2">>}
AroSet == {<<"User", "u1">>, <<"Group", "u1">>, <<"User", "u2">>}

\* Permission levels, Read < Update < Owner.
READ == 1
UPDATE == 7
OWNER == 15
TypeSet == {READ, UPDATE, OWNER}

\* The schema-valid permission records.
PermissionDtos == [id : IdSet \cup {NoId}, aco : AcoSet, aro : AroSet, type : TypeSet]

\* A placeholder value for arguments that carry no permission.
NoDto == [id |-> NoId, aco |-> <<"Folder", "f1">>, aro |-> <<"User", "u1">>, type |-> READ]

\* What a caller may hand to push: a DTO, a PermissionEntity, a DTO the
\* permission schema rejects, or something that is not an object.
PushArgs ==
  [kind : {"dto", "entity"}, val : PermissionDtos]
    \cup {[kind |-> "invalid", val |-> NoDto], [kind |-> "nonobject", val |-> NoDto]}

\* What a caller may hand to addOrReplace (documented as a PermissionEntity).
AddOrReplaceArgs ==
  [kind : {"entity"}, val : PermissionDtos] \cup {[kind |-> "nonobject", val |-> NoDto]}

\* The records of a list given to the constructor.
CtorArgs ==
  [kind : {"dto"}, val : PermissionDtos] \cup {[kind |-> "invalid", val |-> NoDto]}

\* The constructor's optional ownerValidation argument.
FlagSet == {"true", "false", "undefined"}

\* ------------------------------------------------------------ rule names
RULE_UNIQUE_ID == "unique_id"
RULE_UNIQUE_ARO == "unique_aro"
RULE_SAME_ACO == "same_aco"
RULE_ONE_OWNER == "owner"
TYPE_ERROR == "TypeError"
VALIDATION_ERROR == "EntityValidationError"

NoError == [rule |-> "none", position |-> -1]
EntityCollectionError(position, rule) == [rule |-> rule, position |-> position]
TypeError == [rule |-> TYPE_ERROR, position |-> -1]
EntityValidationError == [rule |-> VALIDATION_ERROR, position |-> -1]

\* ------------------------------------------------------ PermissionEntity
\* The entity object made from a DTO: new PermissionEntity(dto).
NewPermissionEntity(dto) ==
  [id |-> dto.id, aco |-> dto.aco, aro |-> dto.aro, type |-> dto.type, obj |-> "own"]

\* The entity object the caller holds and passes by reference.
CallerEntity(dto) ==
  [id |-> dto.id, aco |-> dto.aco, aro |-> dto.aro, type |-> dto.type, obj |-> "caller"]

\* permission.toDto(): the plain data of an entity, its identity dropped.
ToDto(p) == [id |-> p.id, aco |-> p.aco, aro |-> p.aro, type |-> p.type]

IsAroMatching(a, b) == a.aro[1] = b.aro[1] /\ a.aro[2] = b.aro[2]

IsAcoMatching(a, b) == a.aco[1] = b.aco[1] /\ a.aco[2] = b.aco[2]

IsAcoAndAroMatching(a, b) == IsAroMatching(a, b) /\ IsAcoMatching(a, b)

\* The one of the two with the higher level; the existing one on a tie.
GetHighestPermission(existing, new) == IF new.type > existing.type THEN new ELSE existing

IsOwner(p) == p.type = OWNER

\* ------------------------------------------------- PermissionsCollection
\* assertSameAco: skipped on an empty collection, else compared with member 0.
AssertSameAco(perms, p) ==
  IF Len(perms) = 0 THEN NoError
  ELSE IF ~IsAcoMatching(p, perms[1]) THEN EntityCollectionError(0, RULE_SAME_ACO)
  ELSE NoError

\* Mutant: the position reported is always that of the first member.
M_AssertUniqueIdPositionZero(perms, p) ==
  IF p.id = NoId THEN NoError
  ELSE IF \E i \in 1..Len(perms) : perms[i].id # NoId /\ perms[i].id = p.id
       THEN EntityCollectionError(0, RULE_UNIQUE_ID)
       ELSE NoError

\* assertUniqueId: the first member carrying the same id.
AssertUniqueId(perms, p) ==
  IF p.id = NoId THEN NoError
  ELSE LET hits == {i \in 1..Len(perms) : perms[i].id # NoId /\ perms[i].id = p.id}
       IN IF hits = {} THEN NoError
          ELSE EntityCollectionError((CHOOSE i \in hits : \A j \in hits : i <= j) - 1,
                                     RULE_UNIQUE_ID)

\* Mutant: the loop starts at the second member.
M_AssertUniqueAroSkipsFirst(perms, p) ==
  LET hits == {i \in 2..Len(perms) : IsAroMatching(p, perms[i])}
  IN IF hits = {} THEN NoError
     ELSE EntityCollectionError((CHOOSE i \in hits : \A j \in hits : i <= j) - 1,
                                RULE_UNIQUE_ARO)

\* assertUniqueAro: the first member with the same ARO.
AssertUniqueAro(perms, p) ==
  LET hits == {i \in 1..Len(perms) : IsAroMatching(p, perms[i])}
  IN IF hits = {} THEN NoError
     ELSE EntityCollectionError((CHOOSE i \in hits : \A j \in hits : i <= j) - 1,
                                RULE_UNIQUE_ARO)

\* assertAtLeastOneOwner
AssertAtLeastOneOwner(perms) ==
  IF \E i \in 1..Len(perms) : IsOwner(perms[i]) THEN NoError
  ELSE EntityCollectionError(0, RULE_ONE_OWNER)

\* Mutant: the id and ARO rules are asserted before the ACO rule.
M_PushResultAcoLast(perms, arg) ==
  IF arg.kind = "nonobject" THEN [items |-> perms, err |-> TypeError]
  ELSE IF arg.kind = "invalid" THEN [items |-> perms, err |-> EntityValidationError]
  ELSE
    LET newPermission == NewPermissionEntity(arg.val)
        sameAco == AssertSameAco(perms, newPermission)
        uniqueId == AssertUniqueId(perms, newPermission)
        uniqueAro == AssertUniqueAro(perms, newPermission)
    IN IF uniqueId # NoError THEN [items |-> perms, err |-> uniqueId]
       ELSE IF uniqueAro # NoError THEN [items |-> perms, err |-> uniqueAro]
       ELSE IF sameAco # NoError THEN [items |-> perms, err |-> sameAco]
       ELSE [items |-> Append(perms, newPermission), err |-> NoError]

\* Mutant: the new entity is put in front (unshift) instead of at the end.
M_PushResultPrepends(perms, arg) ==
  IF arg.kind = "nonobject" THEN [items |-> perms, err |-> TypeError]
  ELSE IF arg.kind = "invalid" THEN [items |-> perms, err |-> EntityValidationError]
  ELSE
    LET newPermission == NewPermissionEntity(arg.val)
        sameAco == AssertSameAco(perms, newPermission)
        uniqueId == AssertUniqueId(perms, newPermission)
        uniqueAro == AssertUniqueAro(perms, newPermission)
    IN IF sameAco # NoError THEN [items |-> perms, err |-> sameAco]
       ELSE IF uniqueId # NoError THEN [items |-> perms, err |-> uniqueId]
       ELSE IF uniqueAro # NoError THEN [items |-> perms, err |-> uniqueAro]
       ELSE [items |-> <<newPermission>> \o perms, err |-> NoError]

\* Mutant: the new entity is stored before the uniqueness rules are checked,
\* so a push that throws on them has already grown the list.
M_PushResultStoresBeforeRules(perms, arg) ==
  IF arg.kind = "nonobject" THEN [items |-> perms, err |-> TypeError]
  ELSE IF arg.kind = "invalid" THEN [items |-> perms, err |-> EntityValidationError]
  ELSE
    LET dto == IF arg.kind = "entity" THEN ToDto(CallerEntity(arg.val)) ELSE arg.val
        newPermission == NewPermissionEntity(dto)
        sameAco == AssertSameAco(perms, newPermission)
        uniqueId == AssertUniqueId(perms, newPermission)
        uniqueAro == AssertUniqueAro(perms, newPermission)
    IN IF sameAco # NoError THEN [items |-> perms, err |-> sameAco]
       ELSE IF uniqueId # NoError THEN [items |-> Append(perms, newPermission), err |-> uniqueId]
       ELSE IF uniqueAro # NoError THEN [items |-> Append(perms, newPermission), err |-> uniqueAro]
       ELSE [items |-> Append(perms, newPermission), err |-> NoError]

\* push(permission): the members and the error after the call.
PushResult(perms, arg) ==
  IF arg.kind = "nonobject" THEN [items |-> perms, err |-> TypeError]
  ELSE IF arg.kind = "invalid" THEN [items |-> perms, err |-> EntityValidationError]
  ELSE
    LET dto == IF arg.kind = "entity" THEN ToDto(CallerEntity(arg.val)) ELSE arg.val
        newPermission == NewPermissionEntity(dto)
        sameAco == AssertSameAco(perms, newPermission)
        uniqueId == AssertUniqueId(perms, newPermission)
        uniqueAro == AssertUniqueAro(perms, newPermission)
    IN IF sameAco # NoError THEN [items |-> perms, err |-> sameAco]
       ELSE IF uniqueId # NoError THEN [items |-> perms, err |-> uniqueId]
       ELSE IF uniqueAro # NoError THEN [items |-> perms, err |-> uniqueAro]
       ELSE [items |-> Append(perms, newPermission), err |-> NoError]

\* Mutant: a conflict never replaces, the existing member always stays.
M_AddOrReplaceKeepsExisting(perms, arg) ==
  LET pushed == PushResult(perms, arg)
  IN IF pushed.err = NoError THEN pushed
     ELSE IF pushed.err.rule \notin {RULE_UNIQUE_ID, RULE_UNIQUE_ARO} THEN pushed
     ELSE IF IsAcoAndAroMatching(perms[pushed.err.position + 1], CallerEntity(arg.val))
          THEN [items |-> perms, err |-> NoError]
          ELSE pushed

\* Mutant: a conflict always stores the new permission, whatever its level.
M_AddOrReplaceAlwaysNew(perms, arg) ==
  LET pushed == PushResult(perms, arg)
  IN IF pushed.err = NoError THEN pushed
     ELSE IF pushed.err.rule \notin {RULE_UNIQUE_ID, RULE_UNIQUE_ARO} THEN pushed
     ELSE IF IsAcoAndAroMatching(perms[pushed.err.position + 1], CallerEntity(arg.val))
          THEN [items |-> [perms EXCEPT ![pushed.err.position + 1] = CallerEntity(arg.val)],
                err |-> NoError]
          ELSE pushed

\* Mutant: the conflicting member is merged without checking that its ACO and
\* ARO match those of the new permission.
M_AddOrReplaceNoMatchCheck(perms, arg) ==
  LET pushed == PushResult(perms, arg)
  IN IF pushed.err = NoError THEN pushed
     ELSE IF pushed.err.rule \notin {RULE_UNIQUE_ID, RULE_UNIQUE_ARO} THEN pushed
     ELSE [items |-> [perms EXCEPT ![pushed.err.position + 1] =
                        GetHighestPermission(perms[pushed.err.position + 1],
                                             CallerEntity(arg.val))],
           err |-> NoError]

\* addOrReplace(permission): the members and the error after the call.
AddOrReplaceResult(perms, arg) ==
  LET pushed == PushResult(perms, arg)
  IN IF pushed.err = NoError THEN pushed
     ELSE IF pushed.err.rule \notin {RULE_UNIQUE_ID, RULE_UNIQUE_ARO} THEN pushed
     ELSE
       LET permission == CallerEntity(arg.val)
           existingPermission == perms[pushed.err.position + 1]
       IN IF IsAcoAndAroMatching(existingPermission, permission)
          THEN [items |-> [perms EXCEPT ![pushed.err.position + 1] =
                             GetHighestPermission(existingPermission, permission)],
                err |-> NoError]
          ELSE pushed

\* this._props.forEach(push): the records pushed in order, stopping at the
\* first one that throws.
RECURSIVE PushAll(_, _)
PushAll(perms, dtos) ==
  IF dtos = <<>> THEN [items |-> perms, err |-> NoError]
  ELSE LET r == PushResult(perms, Head(dtos))
       IN IF r.err # NoError THEN r ELSE PushAll(r.items, Tail(dtos))

\* Mutant: owner validation runs only when the flag is truthy, so an omitted
\* flag skips it.
M_ConstructResultFlagTruthy(dtos, flag) ==
  LET pushed == PushAll(<<>>, dtos)
      owner == IF flag = "true" THEN AssertAtLeastOneOwner(pushed.items) ELSE NoError
  IN IF pushed.err # NoError THEN [built |-> FALSE, items |-> <<>>, err |-> pushed.err]
     ELSE IF owner # NoError THEN [built |-> FALSE, items |-> <<>>, err |-> owner]
     ELSE [built |-> TRUE, items |-> pushed.items, err |-> NoError]

\* Mutant: a failing record is reported but the collection of the records
\* pushed so far is handed out.
M_ConstructResultKeepsPartial(dtos, flag) ==
  LET pushed == PushAll(<<>>, dtos)
      owner == IF flag = "undefined" \/ flag = "true"
               THEN AssertAtLeastOneOwner(pushed.items) ELSE NoError
  IN IF pushed.err # NoError THEN [built |-> TRUE, items |-> pushed.items, err |-> pushed.err]
     ELSE IF owner # NoError THEN [built |-> FALSE, items |-> <<>>, err |-> owner]
     ELSE [built |-> TRUE, items |-> pushed.items, err |-> NoError]

\* new PermissionsCollection(dtos, flag): the object built, or the error
\* thrown and no object.
ConstructResult(dtos, flag) ==
  LET pushed == PushAll(<<>>, dtos)
      owner == IF flag = "undefined" \/ flag = "true"
               THEN AssertAtLeastOneOwner(pushed.items) ELSE NoError
  IN IF pushed.err # NoError THEN [built |-> FALSE, items |-> <<>>, err |-> pushed.err]
     ELSE IF owner # NoError THEN [built |-> FALSE, items |-> <<>>, err |-> owner]
     ELSE [built |-> TRUE, items |-> pushed.items, err |-> NoError]

\* What a call that hands out a collection gave: the object built and its
\* members, or the error thrown.
NoCollection == [built |-> FALSE, items |-> <<>>, err |-> NoError]

\* set.toDto(): the records of the members, in order, as constructor input.
CollectionToDto(perms) == [i \in 1..Len(perms) |-> [kind |-> "dto", val |-> ToDto(perms[i])]]

\* for (let set2Permission of set2) set3.addOrReplace(set2Permission): the
\* members of set2 merged in order, stopping at the first call that throws.
RECURSIVE AddOrReplaceAll(_, _)
AddOrReplaceAll(perms, others) ==
  IF others = <<>> THEN [items |-> perms, err |-> NoError]
  ELSE LET r == AddOrReplaceResult(perms, [kind |-> "entity", val |-> ToDto(Head(others))])
       IN IF r.err # NoError THEN r ELSE AddOrReplaceAll(r.items, Tail(others))

\* Mutant: the second set is left out, the copy of the first is returned.
M_UnionIgnoresSet2(a, b, ov) ==
  LET seed == ConstructResult(CollectionToDto(a), "false")
      owner == IF ov = "undefined" \/ ov = "true"
               THEN AssertAtLeastOneOwner(seed.items) ELSE NoError
  IN IF ~seed.built THEN seed
     ELSE IF owner # NoError THEN [built |-> FALSE, items |-> <<>>, err |-> owner]
     ELSE [built |-> TRUE, items |-> seed.items, err |-> NoError]

\* Mutant: the result is seeded from the second set and the first is merged in.
M_UnionSeedsFromSet2(a, b, ov) ==
  LET seed == ConstructResult(CollectionToDto(b), "false")
      fold == AddOrReplaceAll(seed.items, a)
      owner == IF ov = "undefined" \/ ov = "true"
               THEN AssertAtLeastOneOwner(fold.items) ELSE NoError
  IN IF ~seed.built THEN seed
     ELSE IF fold.err # NoError THEN [built |-> FALSE, items |-> <<>>, err |-> fold.err]
     ELSE IF owner # NoError THEN [built |-> FALSE, items |-> <<>>, err |-> owner]
     ELSE [built |-> TRUE, items |-> fold.items, err |-> NoError]

\* Mutant: the copy of the first set is constructed with owner validation.
M_UnionSeedValidated(a, b, ov) ==
  LET seed == ConstructResult(CollectionToDto(a), "undefined")
      fold == AddOrReplaceAll(seed.items, b)
      owner == IF ov = "undefined" \/ ov = "true"
               THEN AssertAtLeastOneOwner(fold.items) ELSE NoError
  IN IF ~seed.built THEN seed
     ELSE IF fold.err # NoError THEN [built |-> FALSE, items |-> <<>>, err |-> fold.err]
     ELSE IF owner # NoError THEN [built |-> FALSE, items |-> <<>>, err |-> owner]
     ELSE [built |-> TRUE, items |-> fold.items, err |-> NoError]

\* PermissionsCollection.unionByAcoAndType(a, b, ov): a new collection
\* seeded from the records of a without owner validation, the members of b
\* merged into it, then the owner rule unless ov is false.
UnionByAcoAndType(a, b, ov) ==
  LET seed == ConstructResult(CollectionToDto(a), "false")
      fold == AddOrReplaceAll(seed.items, b)
      owner == IF ov = "undefined" \/ ov = "true"
               THEN AssertAtLeastOneOwner(fold.items) ELSE NoError
  IN IF ~seed.built THEN seed
     ELSE IF fold.err # NoError THEN [built |-> FALSE, items |-> <<>>, err |-> fold.err]
     ELSE IF owner # NoError THEN [built |-> FALSE, items |-> <<>>, err |-> owner]
     ELSE [built |-> TRUE, items |-> fold.items, err |-> NoError]

\* ------------------------------------------------------------------ state
NoArg == [kind |-> "nonobject", val |-> NoDto]

VARIABLES
  pc,               \* the caller: "idle", or "called" right after a call
  exists,           \* the caller holds a constructed collection
  items,            \* its members (this._items), in order
  validated,        \* it was constructed with owner validation
  op,               \* the call just made: "construct", "push", "addOrReplace"
  arg,              \* the argument of that push / addOrReplace
  dtos,             \* the list given to that constructor call
  flag,             \* the ownerValidation argument of that constructor call
  err,              \* what the call threw, NoError if nothing
  before            \* the members before the call

\* unionByAcoAndType, called on two collections the caller holds.
VARIABLES
  unionPc,          \* "idle", or "done" after the call and its repetition
  set1,             \* the members of the first collection
  set2,             \* the members of the second collection
  ownerValidation,  \* the third argument: "true", "false", "undefined"
  set3,             \* what unionByAcoAndType(set1, set2, ownerValidation) gave
  set4              \* what unionByAcoAndType(set3, set2, ownerValidation) gave

\* One FolderModel operation at a time (folderModel.js), step by step: each
\* await is a step, a remote call succeeds or fails.
VARIABLES
  folderPc,            \* the next step: "idle", a step name, "returned", "raised"
  folderOp,            \* the operation called
  folderEntity,        \* its folder: [id, folderParentId, permission]
  parentFolder,        \* the permissions of the parent folder as fetched
  keepOwnership,       \* optional argument of applyPermissionFromParent
  cascade,             \* optional argument of delete
  updateStorage,       \* optional argument of updatePermissions
  currentPermissions,  \* applyPermissionFromParent: the members of its local
  targetPermissions,   \* applyPermissionFromParent: the members of its local
  changes,             \* the change-set handed to updatePermissions
  trace,               \* the remote calls and cache writes made so far, in order
  cache,               \* the ids of the folders in FolderLocalStorage
  cacheBefore,         \* the cache when the operation was called
  fetched,             \* what the last successful find-all returned
  raised,              \* the failure the operation ended with, "none" if none
  returned             \* what the operation returned, "none" if nothing yet

\* One ResourceExportController.exec call at a time.
VARIABLES
  exportPc,            \* "idle", "try", "finally", "ended"
  worker,              \* the worker given: [tab, legacy]
  resourcesIds,        \* the resource ids given
  findAnswer,          \* what the resource service answers if it is asked
  exportLog,           \* what exec did so far, in order
  exportError          \* the error exec rejected with, "none" if none

\* The calls made to the progress controller (progressController.js).
VARIABLES
  progressCalls,       \* the calls so far, in order: [fn, worker]
  emitted              \* per call, what it emitted, in order: [to, event]

collectionVars == <<pc, exists, items, validated, op, arg, dtos, flag, err, before>>

unionVars == <<unionPc, set1, set2, ownerValidation, set3, set4>>

folderVars ==
  <<folderPc, folderOp, folderEntity, parentFolder, keepOwnership, cascade, updateStorage,
    currentPermissions, targetPermissions, changes, trace, cache, cacheBefore,
    fetched, raised, returned>>

exportVars == <<exportPc, worker, resourcesIds, findAnswer, exportLog, exportError>>

progressVars == <<progressCalls, emitted>>

vars == <<collectionVars, unionVars, folderVars, exportVars, progressVars>>

\* The folders of the model; f1 may have f2 as its parent.
FolderIds == {"f1", "f2"}

NoFolder == [id |-> "none", folderParentId |-> "none", permission |-> NoArg]

\* A change-set: the two permission lists it was built from.
NoChanges == [current |-> <<>>, target |-> <<>>]

NoWorker == [tab |-> "none", legacy |-> FALSE]

DtoLists == UNION {[1..n -> CtorArgs] : n \in 0..MaxDtos}

Init ==
  /\ pc = "idle"
  /\ exists = FALSE
  /\ items = <<>>
  /\ validated = FALSE
  /\ op = "none"
  /\ arg = NoArg
  /\ dtos = <<>>
  /\ flag = "undefined"
  /\ err = NoError
  /\ before = <<>>
  /\ unionPc = "idle"
  /\ set1 = <<>>
  /\ set2 = <<>>
  /\ ownerValidation = "undefined"
  /\ set3 = NoCollection
  /\ set4 = NoCollection
  /\ folderPc = "idle"
  /\ folderOp = "none"
  /\ folderEntity = NoFolder
  /\ parentFolder = <<>>
  /\ keepOwnership = "undefined"
  /\ cascade = "undefined"
  /\ updateStorage = "undefined"
  /\ currentPermissions = <<>>
  /\ targetPermissions = <<>>
  /\ changes = NoChanges
  /\ trace = <<>>
  /\ cache = {}
  /\ cacheBefore = {}
  /\ fetched = {}
  /\ raised = "none"
  /\ returned = "none"
  /\ exportPc = "idle"
  /\ worker = NoWorker
  /\ resourcesIds = {}
  /\ findAnswer = "none"
  /\ exportLog = <<>>
  /\ exportError = "none"
  /\ progressCalls = <<>>
  /\ emitted = <<>>

\* new PermissionsCollection(list, f)
Construct(list, f) ==
  /\ pc = "idle"
  /\ ~exists
  /\ LET r == ConstructResult(list, f)
     IN /\ exists' = r.built
        /\ items' = r.items
        /\ err' = r.err
        /\ validated' = (r.built /\ f # "false")
  /\ pc' = "called"
  /\ op' = "construct"
  /\ arg' = NoArg
  /\ dtos' = list
  /\ flag' = f
  /\ before' = <<>>
  /\ UNCHANGED <<unionVars, folderVars, exportVars, progressVars>>

\* collection.push(a)
Push(a) ==
  /\ pc = "idle"
  /\ exists
  /\ LET r == PushResult(items, a)
     IN /\ items' = r.items
        /\ err' = r.err
  /\ pc' = "called"
  /\ op' = "push"
  /\ arg' = a
  /\ before' = items
  /\ UNCHANGED <<exists, validated, dtos, flag>>
  /\ UNCHANGED <<unionVars, folderVars, exportVars, progressVars>>

\* collection.addOrReplace(a)
AddOrReplace(a) ==
  /\ pc = "idle"
  /\ exists
  /\ LET r == AddOrReplaceResult(items, a)
     IN /\ items' = r.items
        /\ err' = r.err
  /\ pc' = "called"
  /\ op' = "addOrReplace"
  /\ arg' = a
  /\ before' = items
  /\ UNCHANGED <<exists, validated, dtos, flag>>
  /\ UNCHANGED <<unionVars, folderVars, exportVars, progressVars>>

\* The call has returned or thrown and the caller goes on: the record of the
\* call is dropped, the collection (if one was built) is kept.
Return ==
  /\ pc = "called"
  /\ pc' = "idle"
  /\ op' = "none"
  /\ arg' = NoArg
  /\ dtos' = <<>>
  /\ flag' = "undefined"
  /\ err' = NoError
  /\ before' = <<>>
  /\ UNCHANGED <<exists, items, validated>>
  /\ UNCHANGED <<unionVars, folderVars, exportVars, progressVars>>

Next ==
  \/ pc = "idle" /\ ~exists /\ \E list \in DtoLists, f \in FlagSet : Construct(list, f)
  \/ pc = "idle" /\ exists /\ \E a \in PushArgs : Push(a)
  \/ pc = "idle" /\ exists /\ \E a \in AddOrReplaceArgs : AddOrReplace(a)
  \/ Return

Spec == Init /\ [][Next]_vars

\* ------------------------------------------------ unionByAcoAndType calls
\* Most members the two collections handed to unionByAcoAndType hold together.
MaxMembers == 3

\* The records the two collections are built from: at most one id in play.
UnionDtos == {d \in PermissionDtos : d.id \in {NoId, "p1"}}

\* The collections a caller can hold: whatever up to n accepted pushes build.
RECURSIVE BuiltBy(_)
BuiltBy(n) ==
  IF n = 0 THEN {<<>>}
  ELSE LET fewer == BuiltBy(n - 1)
       IN fewer \cup
            {PushResult(pair[1], [kind |-> "dto", val |-> pair[2]]).items :
               pair \in {q \in fewer \X UnionDtos :
                           PushResult(q[1], [kind |-> "dto", val |-> q[2]]).err = NoError}}

UnionSets == BuiltBy(MaxMembers)

\* The first collection is about folder f1 (or empty); the second is any.
UnionFirstSets == {c \in UnionSets : \A i \in 1..Len(c) : c[i].aco = <<"Folder", "f1">>}

\* set3 = unionByAcoAndType(a, b, ov), then unionByAcoAndType(set3, b, ov)
\* when the first call handed out a collection.
Union(a, b, ov) ==
  /\ unionPc = "idle"
  /\ Len(a) + Len(b) <= MaxMembers
  /\ unionPc' = "done"
  /\ set1' = a
  /\ set2' = b
  /\ ownerValidation' = ov
  /\ LET r == UnionByAcoAndType(a, b, ov)
     IN /\ set3' = r
        /\ set4' = IF r.built THEN UnionByAcoAndType(r.items, b, ov) ELSE NoCollection
  /\ UNCHANGED <<collectionVars, folderVars, exportVars, progressVars>>

NextUnion ==
  unionPc = "idle" /\ \E a \in UnionFirstSets, b \in UnionSets, ov \in FlagSet : Union(a, b, ov)

SpecUnion == Init /\ [][NextUnion]_vars

\* ------------------------------------------------- vocabulary of the claims
Called(o) == pc = "called" /\ op = o

\* The last call was given a schema-valid permission (DTO or entity).
ValidArg == arg.kind \in {"dto", "entity"}

Positions(perms) == 1..Len(perms)

Values(perms) == [i \in Positions(perms) |-> ToDto(perms[i])]

HasOwner(perms) == \E i \in Positions(perms) : perms[i].type = OWNER

SameAcoIn(perms) == \A i, j \in Positions(perms) : perms[i].aco = perms[j].aco

UniqueAroIn(perms) ==
  \A i, j \in Positions(perms) : i # j => perms[i].aro # perms[j].aro

UniqueIdIn(perms) ==
  \A i, j \in Positions(perms) : (i # j /\ perms[i].id # NoId) => perms[i].id # perms[j].id

\* The members holding the ARO / the id of the permission v.
AroHits(perms, v) == {i \in Positions(perms) : perms[i].aro = v.aro}
IdHits(perms, v) == {i \in Positions(perms) : v.id # NoId /\ perms[i].id = v.id}

\* ---------------------------------------------------------------------- C1
\* C1: in every reachable state all members of the collection have the same
\* ACO, no two members have the same ARO (type, id), and no two members
\* that carry an id have the same id.
C1_CollectionInvariants ==
  /\ SameAcoIn(items)
  /\ UniqueAroIn(items)
  /\ UniqueIdIn(items)

\* A three-member collection, two of them with ids, whose middle member has
\* just been replaced by addOrReplace.
C1_Witness ==
  /\ Called("addOrReplace")
  /\ err = NoError
  /\ Len(items) = 3
  /\ Len(before) = 3
  /\ items[2] # before[2]
  /\ items[1].id # NoId
  /\ items[2].id # NoId

\* ---------------------------------------------------------------------- C2
\* C2: no member of the collection is the object the caller supplied: every
\* member is an entity the collection created itself.
C2_MembersAreCopies == \A i \in Positions(items) : items[i].obj = "own"

\* ---------------------------------------------------------------------- C3
\* The members matching v on ACO and ARO.
AcoAroHits(perms, v) == {i \in Positions(perms) : perms[i].aco = v.aco /\ perms[i].aro = v.aro}

\* What C3 promises for position i after addOrReplace(v): the slot holds the
\* higher of the two (the existing one on a tie), the ARO occurs once, and
\* the other members are where they were.
MergedAt(i, v) ==
  /\ Len(items) = Len(before)
  /\ IF v.type > before[i].type THEN ToDto(items[i]) = v ELSE items[i] = before[i]
  /\ Cardinality(AroHits(items, v)) = 1
  /\ \A j \in Positions(before) : j # i => items[j] = before[j]

\* C3 as stated: addOrReplace of a record whose ACO and ARO match the member
\* at position i leaves at i the higher of the two, one entry for the ARO,
\* and the other members unchanged.
C3_Original ==
  (Called("addOrReplace") /\ arg.kind = "entity")
    => \A i \in AcoAroHits(before, arg.val) : MergedAt(i, arg.val)

\* C3 amended: the same, for a record whose id, if it has one, is not the id
\* of another member.
C3_MergeKeepsHighest ==
  (Called("addOrReplace") /\ arg.kind = "entity")
    => \A i \in AcoAroHits(before, arg.val) :
         (IdHits(before, arg.val) \subseteq {i}) => MergedAt(i, arg.val)

\* A strictly higher entity has replaced the middle member of three.
C3_Witness ==
  /\ Called("addOrReplace")
  /\ arg.kind = "entity"
  /\ Len(before) = 3
  /\ 2 \in AcoAroHits(before, arg.val)
  /\ arg.val.type > before[2].type
  /\ ToDto(items[2]) = arg.val

\* ---------------------------------------------------------------------- C4
\* C4: addOrReplace of a record carrying the id of a member whose ARO is
\* different never merges: the error push raises (UNIQUE_ID with that
\* member's position, or SAME_ACO when the ACO differs too) reaches the
\* caller and the members are unchanged; and every SAME_ACO error is
\* propagated without replacement.
C4_CorruptionPropagates ==
  (Called("addOrReplace") /\ arg.kind = "entity")
    => /\ \A i \in IdHits(before, arg.val) :
            before[i].aro # arg.val.aro
              => /\ items = before
                 /\ err = IF arg.val.aco = before[1].aco
                          THEN EntityCollectionError(i - 1, RULE_UNIQUE_ID)
                          ELSE EntityCollectionError(0, RULE_SAME_ACO)
       /\ (Len(before) > 0 /\ arg.val.aco # before[1].aco)
            => /\ items = before
               /\ err = EntityCollectionError(0, RULE_SAME_ACO)

\* The record has the id of the member at position 1, the ARO of the member
\* at position 0 and a higher level than both: UNIQUE_ID reached the caller.
C4_Witness ==
  /\ Called("addOrReplace")
  /\ arg.kind = "entity"
  /\ Len(before) >= 2
  /\ before[2].id = arg.val.id
  /\ arg.val.id # NoId
  /\ before[1].aro = arg.val.aro
  /\ arg.val.type > before[1].type
  /\ arg.val.type > before[2].type
  /\ err.rule = RULE_UNIQUE_ID

\* ---------------------------------------------------------------------- C5
\* C5: push of a valid record whose ACO differs from that of a non-empty
\* collection fails with SAME_ACO (position 0) whatever its ARO and id; on
\* an empty collection the record is accepted.
C5_SameAcoFirst ==
  (Called("push") /\ ValidArg)
    => /\ (Len(before) > 0 /\ arg.val.aco # before[1].aco)
            => /\ err = EntityCollectionError(0, RULE_SAME_ACO)
               /\ items = before
       /\ Len(before) = 0
            => /\ err = NoError
               /\ items = <<NewPermissionEntity(arg.val)>>

\* A record with another ACO, the id of one member and the ARO of another
\* was refused with SAME_ACO.
C5_Witness ==
  /\ Called("push")
  /\ ValidArg
  /\ Len(before) >= 2
  /\ arg.val.aco # before[1].aco
  /\ IdHits(before, arg.val) # {}
  /\ AroHits(before, arg.val) # {}
  /\ IdHits(before, arg.val) # AroHits(before, arg.val)
  /\ err.rule = RULE_SAME_ACO

\* ---------------------------------------------------------------------- C6
\* C6: push of a valid record with the collection's ACO: if it carries the
\* id of the member at position i it fails with UNIQUE_ID and position i;
\* otherwise, if it has the ARO of the member at position j, it fails with
\* UNIQUE_ARO and position j; otherwise it is appended at the end.
C6_UniqueRules ==
  (Called("push") /\ ValidArg /\ (Len(before) = 0 \/ arg.val.aco = before[1].aco))
    => IF IdHits(before, arg.val) # {}
       THEN /\ items = before
            /\ \A i \in IdHits(before, arg.val) :
                 err = EntityCollectionError(i - 1, RULE_UNIQUE_ID)
       ELSE IF AroHits(before, arg.val) # {}
       THEN /\ items = before
            /\ \A j \in AroHits(before, arg.val) :
                 err = EntityCollectionError(j - 1, RULE_UNIQUE_ARO)
       ELSE /\ err = NoError
            /\ items = Append(before, NewPermissionEntity(arg.val))

\* The record has the id of the member at position 2 and the ARO of the
\* member at position 0: UNIQUE_ID with position 2.
C6_Witness ==
  /\ Called("push")
  /\ ValidArg
  /\ Len(before) = 3
  /\ before[3].id = arg.val.id
  /\ arg.val.id # NoId
  /\ before[1].aro = arg.val.aro
  /\ err = EntityCollectionError(2, RULE_UNIQUE_ID)

\* ------------------------------------------------------------- constructor
\* The constructor was just called with schema-valid records only.
ConstructedFromValid ==
  /\ Called("construct")
  /\ \A k \in Positions(dtos) : dtos[k].kind = "dto"

\* The records of the list given to the constructor.
Records == [k \in Positions(dtos) |-> dtos[k].val]

\* Record k breaks a push rule against the records before it.
Conflicts(k) ==
  \E i \in 1..(k - 1) :
    \/ Records[k].aco # Records[1].aco
    \/ Records[k].id # NoId /\ Records[k].id = Records[i].id
    \/ Records[k].aro = Records[i].aro

\* ---------------------------------------------------------------------- C7
\* C7 as stated: every non-empty list of schema-valid records with an Owner
\* entry and pairwise-distinct AROs constructs, members in input order.
C7_Original ==
  (/\ ConstructedFromValid
   /\ Len(dtos) > 0
   /\ HasOwner(Records)
   /\ UniqueAroIn(Records))
    => /\ exists
       /\ err = NoError
       /\ Values(items) = Records

\* C7 amended: the same for lists whose records moreover all have the same
\* ACO and whose ids, where present, are pairwise distinct.
C7_ConstructKeepsOrder ==
  (/\ ConstructedFromValid
   /\ Len(dtos) > 0
   /\ HasOwner(Records)
   /\ UniqueAroIn(Records)
   /\ SameAcoIn(Records)
   /\ UniqueIdIn(Records))
    => /\ exists
       /\ err = NoError
       /\ Values(items) = Records

\* Two different records, the owner second, were given and the collection
\* holds them in that order.
C7_Witness ==
  /\ ConstructedFromValid
  /\ Len(dtos) = 2
  /\ exists
  /\ Records[1].type # OWNER
  /\ Records[2].type = OWNER
  /\ Values(items) = Records

\* ---------------------------------------------------------------------- C8
\* C8 as stated: a list of schema-valid records without an Owner entry fails
\* with ONE_OWNER (position 0) when the flag is true or omitted and
\* constructs when the flag is false.
C8_Original ==
  (ConstructedFromValid /\ ~HasOwner(Records))
    => IF flag = "false"
       THEN exists /\ err = NoError
       ELSE ~exists /\ err = EntityCollectionError(0, RULE_ONE_OWNER)

\* C8 amended: the same for lists that pass the insertion rules (one ACO,
\* pairwise-distinct AROs, pairwise-distinct ids where present).
C8_OneOwner ==
  (/\ ConstructedFromValid
   /\ ~HasOwner(Records)
   /\ SameAcoIn(Records)
   /\ UniqueAroIn(Records)
   /\ UniqueIdIn(Records))
    => IF flag = "false"
       THEN exists /\ err = NoError
       ELSE ~exists /\ err = EntityCollectionError(0, RULE_ONE_OWNER)

\* The flag was omitted and a two-record list without an owner was refused
\* with ONE_OWNER.
C8_Witness ==
  /\ ConstructedFromValid
  /\ flag = "undefined"
  /\ Len(dtos) = 2
  /\ ~HasOwner(Records)
  /\ err = EntityCollectionError(0, RULE_ONE_OWNER)

C10_OwnerKept ==
  /\ (exists /\ validated) => HasOwner(items)
  /\ (Called("push") \/ Called("addOrReplace"))
       => /\ Len(items) >= Len(before)
          /\ \A i \in Positions(before) :
               /\ items[i].aro = before[i].aro
               /\ items[i].type >= before[i].type

\* A validated collection whose only owner was the target of addOrReplace
\* with a lower level for the same ARO.
C10_Witness ==
  /\ Called("addOrReplace")
  /\ validated
  /\ err = NoError
  /\ arg.kind = "entity"
  /\ arg.val.type < OWNER
  /\ \E i \in AcoAroHits(before, arg.val) :
       /\ before[i].type = OWNER
       /\ \A j \in Positions(before) : j # i => before[j].type # OWNER

\* ------------------------------------------- vocabulary of the union claims
UnionDone == unionPc = "done"

\* The two-argument call unionByAcoAndType(A, B).
TwoArgumentCall == ownerValidation = "undefined"

\* Every ARO of the second collection occurs in the first.
Set2WithinSet1 ==
  \A j \in Positions(set2) : \E i \in Positions(set1) : IsAroMatching(set1[i], set2[j])

\* The levels the ARO of p has in the first or the second collection.
LevelsOf(p) ==
  {set1[i].type : i \in {k \in Positions(set1) : IsAroMatching(set1[k], p)}}
    \cup {set2[j].type : j \in {k \in Positions(set2) : IsAroMatching(set2[k], p)}}

HighestLevel(p) == CHOOSE t \in LevelsOf(p) : \A x \in LevelsOf(p) : x <= t

\* C11, as written: whenever every ARO of B occurs in A, unionByAcoAndType(A, B)
\* hands out |A| entries, each at the highest level of its ARO in A or B, and
\* applying the union with B once more gives an equal collection.
C11_Original ==
  (UnionDone /\ TwoArgumentCall /\ Set2WithinSet1)
    => /\ set3.built
       /\ Len(set3.items) = Len(set1)
       /\ \A i \in Positions(set3.items) :
            LevelsOf(set3.items[i]) # {} /\ set3.items[i].type = HighestLevel(set3.items[i])
       /\ set4.built
       /\ Values(set4.items) = Values(set3.items)

\* C11, amended: the same, for the calls unionByAcoAndType(A, B) that raise no
\* error: the result has |A| entries, each at the highest level its ARO has in
\* A or B, and unionByAcoAndType(result, B) raises no error and equals it.
C11_UnionWithinIdempotent ==
  (UnionDone /\ TwoArgumentCall /\ Set2WithinSet1 /\ set3.built)
    => /\ Len(set3.items) = Len(set1)
       /\ \A i \in Positions(set3.items) :
            LevelsOf(set3.items[i]) # {} /\ set3.items[i].type = HighestLevel(set3.items[i])
       /\ set4.built
       /\ Values(set4.items) = Values(set3.items)

\* A union of a two-member A with a B inside it that raises a level of A.
C11_Witness ==
  /\ UnionDone /\ TwoArgumentCall /\ Set2WithinSet1 /\ set3.built
  /\ Len(set1) = 2
  /\ \E i \in Positions(set1), j \in Positions(set2) :
       IsAroMatching(set1[i], set2[j]) /\ set2[j].type > set1[i].type
  /\ set4.built

\* The two collections are about the same ACO.
SameAcoSets ==
  \A i \in Positions(set1), j \in Positions(set2) : IsAcoMatching(set1[i], set2[j])

OnlyInSet2(p) == ~\E i \in Positions(set1) : IsAroMatching(set1[i], p)

\* The AROs of A in A's order, then those occurring only in B in B's order.
UnionOrder == set1 \o SelectSeq(set2, OnlyInSet2)

\* The result has one entry per ARO of A or B, in UnionOrder, each at the
\* highest level of its ARO and about the ACO of the member it stems from.
IsOrderedUnion(result) ==
  /\ Len(result) = Len(UnionOrder)
  /\ \A i \in Positions(result) :
       /\ IsAcoAndAroMatching(result[i], UnionOrder[i])
       /\ result[i].type = HighestLevel(UnionOrder[i])
  /\ \A i, j \in Positions(result) : IsAroMatching(result[i], result[j]) => i = j

\* C12, as written: for two collections on the same ACO, unionByAcoAndType(A, B)
\* returns a collection with one entry per ARO of A or B, each at the highest
\* level, A's AROs first in A's order and then B's other AROs in B's order.
C12_Original ==
  (UnionDone /\ TwoArgumentCall /\ SameAcoSets)
    => (set3.built /\ IsOrderedUnion(set3.items))

\* C12, amended: the same for the calls unionByAcoAndType(A, B) on the same ACO
\* that raise no error.
C12_OrderedUnion ==
  (UnionDone /\ TwoArgumentCall /\ SameAcoSets /\ set3.built)
    => IsOrderedUnion(set3.items)

\* The example: [{User u1, Owner}] united with [{User u1, Read},
\* {Group u1, Update}] gives [{User u1, Owner}, {Group u1, Update}].
C12_Witness ==
  /\ UnionDone /\ TwoArgumentCall /\ SameAcoSets /\ set3.built
  /\ Len(set1) = 1 /\ set1[1].aro = <<"User", "u1">> /\ set1[1].type = OWNER
  /\ Len(set2) = 2
  /\ set2[1].aro = <<"User", "u1">> /\ set2[1].type = READ
  /\ set2[2].aro = <<"Group", "u1">> /\ set2[2].type = UPDATE
  /\ Len(set3.items) = 2
  /\ set3.items[1].aro = <<"User", "u1">> /\ set3.items[1].type = OWNER
  /\ set3.items[2].aro = <<"Group", "u1">> /\ set3.items[2].type = UPDATE

\* The fold of B into the copy of A threw a uniqueness or ACO error.
FoldError == set3.err.rule \in {RULE_UNIQUE_ID, RULE_UNIQUE_ARO, RULE_SAME_ACO}

\* C13: when the fold raises no uniqueness or ACO error, a call with
\* ownerValidation true or omitted throws ONE_OWNER exactly when neither A nor
\* B has an Owner member and otherwise returns the union; a call with
\* ownerValidation false returns the union, with or without an owner.
C13_OwnerValidation ==
  (UnionDone /\ ~FoldError)
    => IF ownerValidation \in {"true", "undefined"}
       THEN /\ (set3.err = EntityCollectionError(0, RULE_ONE_OWNER))
                 <=> (~HasOwner(set1) /\ ~HasOwner(set2))
            /\ (HasOwner(set1) \/ HasOwner(set2))
                 => (set3.built /\ set3.err = NoError /\ IsOrderedUnion(set3.items))
       ELSE set3.built /\ set3.err = NoError /\ IsOrderedUnion(set3.items)

\* A validated union of an ownerless, non-empty A with a B that has an owner
\* is handed out.
C13_Witness ==
  /\ UnionDone /\ ~FoldError
  /\ ownerValidation \in {"true", "undefined"}
  /\ set1 # <<>> /\ ~HasOwner(set1) /\ HasOwner(set2)
  /\ set3.built

\* ------------------------------------------------------------ FolderModel
\* Most permissions the parent folder carries.
MaxParentPermissions == 2

\* How a remote call can fail.
RemoteErrors == {"network", "api"}

RemoteResults == {"ok"} \cup RemoteErrors

ACO_FOLDER == "Folder"

\* The folder whose permissions applyPermissionFromParent aligns, and its parent.
ChildFolder == "f1"
ParentFolder == "f2"

\* folderEntity.permission: the current user's permission on the folder, or
\* nothing when the folder was loaded without it.
OwnPermissions ==
  [kind : {"entity"}, val : {d \in UnionDtos : d.aco = <<ACO_FOLDER, ChildFolder>>}]
    \cup {NoArg}

\* parentFolder.permissions: a collection about the parent that has an owner.
ParentPermissionSets ==
  {c \in BuiltBy(MaxParentPermissions) :
     HasOwner(c) /\ \A i \in 1..Len(c) : c[i].aco = <<ACO_FOLDER, ParentFolder>>}

Event(call, result) == [call |-> call, result |-> result]

\* permission.copyForAnotherAco(aco, acoId): the same ARO and level on another
\* ACO, as a new entity without id.
CopyForAnotherAco(p, aco, acoId) ==
  NewPermissionEntity([id |-> NoId, aco |-> <<aco, acoId>>, aro |-> p.aro, type |-> p.type])

\* PermissionChangesCollection.buildChangesFromPermissions(current, target)
BuildChangesFromPermissions(current, target) ==
  [current |-> Values(current), target |-> Values(target)]

\* Mutant: the copies keep the ACO of the parent.
M_CloneKeepsParentAco(aco, acoId, perms) ==
  AddOrReplaceAll(ConstructResult(<<>>, "false").items,
                  [i \in 1..Len(perms) |-> CopyForAnotherAco(perms[i], perms[i].aco[1], perms[i].aco[2])])

\* cloneParentPermissions, after the fetch: the parent's permissions copied
\* for the ACO and merged one by one into an empty, unvalidated collection.
CloneParentPermissions(aco, acoId, perms) ==
  AddOrReplaceAll(ConstructResult(<<>>, "false").items,
                  [i \in 1..Len(perms) |-> CopyForAnotherAco(perms[i], aco, acoId)])

\* Mutant: the folder's own permission is merged in whatever keepOwnership is.
M_KeepOwnershipAlways(clones, permission, keep) ==
  AddOrReplaceResult(clones, permission)

\* applyPermissionFromParent, lines 113-115: the folder's own permission is
\* merged into the clones unless keepOwnership is given and falsy.
KeepOwnership(clones, permission, keep) ==
  IF keep = "undefined" \/ keep = "true"
  THEN AddOrReplaceResult(clones, permission)
  ELSE [items |-> clones, err |-> NoError]

\* Mutant: the current set is built without owner validation.
M_CurrentPermissionsUnvalidated(permission) == ConstructResult(<<permission>>, "false")

\* applyPermissionFromParent, line 109: new PermissionsCollection([permission])
CurrentPermissions(permission) == ConstructResult(<<permission>>, "undefined")

\* The start of an operation: nothing done yet, the cache remembered.
Begin(o, entity) ==
  /\ folderPc = "idle"
  /\ folderOp' = o
  /\ folderEntity' = entity
  /\ trace' = <<>>
  /\ cacheBefore' = cache
  /\ UNCHANGED <<parentFolder, targetPermissions, changes, cache, fetched, returned>>
  /\ UNCHANGED <<collectionVars, unionVars, exportVars, progressVars>>

\* A step that only moves on: the call record and the locals stay.
Keep ==
  /\ UNCHANGED <<folderOp, folderEntity, keepOwnership, cascade, updateStorage, cacheBefore>>
  /\ UNCHANGED <<collectionVars, unionVars, exportVars, progressVars>>

\* A remote call: logged with its result; a failure ends the operation with
\* that failure raised.
Remote(call, result, then, value) ==
  /\ trace' = Append(trace, Event(call, result))
  /\ IF result = "ok"
     THEN folderPc' = then /\ raised' = raised /\ returned' = value
     ELSE folderPc' = "raised" /\ raised' = result /\ returned' = returned

\* create(folderEntity)
CallCreate(id) ==
  /\ Begin("create", [id |-> id, folderParentId |-> "none", permission |-> NoArg])
  /\ folderPc' = "create"
  /\ UNCHANGED <<keepOwnership, cascade, updateStorage, currentPermissions, raised>>

\* Mutant: a failing create is swallowed and the folder is cached all the same.
M_ServiceCreateSwallows(result) ==
  /\ folderPc = "create"
  /\ trace' = Append(trace, Event("folderService.create", result))
  /\ folderPc' = "addFolder"
  /\ UNCHANGED <<raised, returned>>
  /\ UNCHANGED <<parentFolder, currentPermissions, targetPermissions, changes, cache, fetched>>
  /\ Keep

\* await this.folderService.create(...)
ServiceCreate(result) ==
  /\ folderPc = "create"
  /\ Remote("folderService.create", result, "addFolder", returned)
  /\ UNCHANGED <<parentFolder, currentPermissions, targetPermissions, changes, cache, fetched>>
  /\ Keep

\* await FolderLocalStorage.addFolder(updatedFolderEntity); return it
StorageAddFolder ==
  /\ folderPc = "addFolder"
  /\ cache' = cache \cup {folderEntity.id}
  /\ trace' = Append(trace, Event("FolderLocalStorage.addFolder", "ok"))
  /\ folderPc' = "returned"
  /\ returned' = "updatedFolderEntity"
  /\ UNCHANGED <<parentFolder, currentPermissions, targetPermissions, changes, fetched, raised>>
  /\ Keep

\* update(folderEntity)
CallUpdate(id) ==
  /\ Begin("update", [id |-> id, folderParentId |-> "none", permission |-> NoArg])
  /\ folderPc' = "update"
  /\ UNCHANGED <<keepOwnership, cascade, updateStorage, currentPermissions, raised>>

\* await this.folderService.update(...)
ServiceUpdate(result) ==
  /\ folderPc = "update"
  /\ Remote("folderService.update", result, "updateFolder", returned)
  /\ UNCHANGED <<parentFolder, currentPermissions, targetPermissions, changes, cache, fetched>>
  /\ Keep

\* await FolderLocalStorage.updateFolder(updatedFolderEntity); return it
StorageUpdateFolder ==
  /\ folderPc = "updateFolder"
  /\ cache' = cache \cup {folderEntity.id}
  /\ trace' = Append(trace, Event("FolderLocalStorage.updateFolder", "ok"))
  /\ folderPc' = "returned"
  /\ returned' = "updatedFolderEntity"
  /\ UNCHANGED <<parentFolder, currentPermissions, targetPermissions, changes, fetched, raised>>
  /\ Keep

\* delete(folderId, c)
CallDelete(id, c) ==
  /\ Begin("delete", [id |-> id, folderParentId |-> "none", permission |-> NoArg])
  /\ cascade' = c
  /\ folderPc' = "delete"
  /\ UNCHANGED <<keepOwnership, updateStorage, currentPermissions, raised>>

\* await this.folderService.delete(folderId, cascade)
ServiceDelete(result) ==
  /\ folderPc = "delete"
  /\ Remote("folderService.delete", result, "storageDelete", returned)
  /\ UNCHANGED <<parentFolder, currentPermissions, targetPermissions, changes, cache, fetched>>
  /\ Keep

\* Mutant: the cache is refreshed unless cascade is given as false.
M_StorageDeleteRefreshesByDefault ==
  /\ folderPc = "storageDelete"
  /\ cache' = cache \ {folderEntity.id}
  /\ trace' = Append(trace, Event("FolderLocalStorage.delete", "ok"))
  /\ IF cascade # "false"
     THEN folderPc' = "findAll" /\ returned' = returned
     ELSE folderPc' = "returned" /\ returned' = "void"
  /\ UNCHANGED <<parentFolder, currentPermissions, targetPermissions, changes, fetched, raised>>
  /\ Keep

\* await FolderLocalStorage.delete(folderId); if (cascade) go on to refresh
StorageDelete ==
  /\ folderPc = "storageDelete"
  /\ cache' = cache \ {folderEntity.id}
  /\ trace' = Append(trace, Event("FolderLocalStorage.delete", "ok"))
  /\ IF cascade = "true"
     THEN folderPc' = "findAll" /\ returned' = returned
     ELSE folderPc' = "returned" /\ returned' = "void"
  /\ UNCHANGED <<parentFolder, currentPermissions, targetPermissions, changes, fetched, raised>>
  /\ Keep

\* updatePermissions(folderEntity, changesCollection, us)
CallUpdatePermissions(id, us) ==
  /\ Begin("updatePermissions", [id |-> id, folderParentId |-> "none", permission |-> NoArg])
  /\ updateStorage' = us
  /\ folderPc' = "updatePermissions"
  /\ UNCHANGED <<keepOwnership, cascade, currentPermissions, raised>>

\* Mutant: the storage is refreshed only when updateStorage is given as true.
M_ServiceUpdatePermissionsNoDefault(result) ==
  /\ folderPc = "updatePermissions"
  /\ IF updateStorage = "true"
     THEN Remote("folderService.updatePermissions", result, "findAll", returned)
     ELSE Remote("folderService.updatePermissions", result, "returned", "folderEntity")
  /\ UNCHANGED <<parentFolder, currentPermissions, targetPermissions, changes, cache, fetched>>
  /\ Keep

\* await this.folderService.updatePermissions(...); if (updateStorage) go on
\* to refresh, else return the entity given
ServiceUpdatePermissions(result) ==
  /\ folderPc = "updatePermissions"
  /\ IF updateStorage = "undefined" \/ updateStorage = "true"
     THEN Remote("folderService.updatePermissions", result, "findAll", returned)
     ELSE Remote("folderService.updatePermissions", result, "returned", "folderEntity")
  /\ UNCHANGED <<parentFolder, currentPermissions, targetPermissions, changes, cache, fetched>>
  /\ Keep

\* updateLocalStorage: await this.findAll()
ServiceFindAll(result, folders) ==
  /\ folderPc = "findAll"
  /\ Remote("folderService.findAll", result, "set", returned)
  /\ fetched' = IF result = "ok" THEN folders ELSE fetched
  /\ UNCHANGED <<parentFolder, currentPermissions, targetPermissions, changes, cache>>
  /\ Keep

\* updateLocalStorage: await FolderLocalStorage.set(foldersCollection); the
\* caller (updatePermissions or delete) then returns
StorageSet ==
  /\ folderPc = "set"
  /\ cache' = fetched
  /\ trace' = Append(trace, Event("FolderLocalStorage.set", "ok"))
  /\ folderPc' = "returned"
  /\ returned' = IF folderOp = "delete" THEN "void" ELSE "folderEntity"
  /\ UNCHANGED <<parentFolder, currentPermissions, targetPermissions, changes, fetched, raised>>
  /\ Keep

\* Mutant: the parent is fetched whether or not the folder has one.
M_CallApplyIgnoresParentId(parentId, permission, keep) ==
  /\ Begin("applyPermissionFromParent",
           [id |-> ChildFolder, folderParentId |-> parentId, permission |-> permission])
  /\ keepOwnership' = keep
  /\ LET current == CurrentPermissions(permission)
     IN IF current.built
        THEN /\ folderPc' = "get"
             /\ currentPermissions' = current.items
             /\ raised' = raised
        ELSE /\ folderPc' = "raised"
             /\ currentPermissions' = currentPermissions
             /\ raised' = current.err.rule
  /\ UNCHANGED <<cascade, updateStorage>>

\* applyPermissionFromParent(folderEntity, keep) up to its first await: a
\* folder without parent is returned at once; else the current set is built
\* from the folder's own permission, which throws if that is no owner.
CallApply(parentId, permission, keep) ==
  /\ Begin("applyPermissionFromParent",
           [id |-> ChildFolder, folderParentId |-> parentId, permission |-> permission])
  /\ keepOwnership' = keep
  /\ IF parentId = "none"
     THEN /\ folderPc' = "returning"
          /\ UNCHANGED <<currentPermissions, raised>>
     ELSE LET current == CurrentPermissions(permission)
          IN IF current.built
             THEN /\ folderPc' = "get"
                  /\ currentPermissions' = current.items
                  /\ raised' = raised
             ELSE /\ folderPc' = "raised"
                  /\ currentPermissions' = currentPermissions
                  /\ raised' = current.err.rule
  /\ UNCHANGED <<cascade, updateStorage>>

\* applyPermissionFromParent, line 120: return folderEntity
ReturnFolderEntity ==
  /\ folderPc = "returning"
  /\ folderPc' = "returned"
  /\ returned' = "folderEntity"
  /\ UNCHANGED <<parentFolder, currentPermissions, targetPermissions, changes, trace,
                 cache, fetched, raised>>
  /\ Keep

\* cloneParentPermissions: await this.folderService.get(folderParentId, ...),
\* the clones; then lines 113-118: the own permission kept or not, the
\* change-set built, and updatePermissions(folderEntity, changes) called.
ServiceGet(result, perms) ==
  /\ folderPc = "get"
  /\ trace' = Append(trace, Event("folderService.get", result))
  /\ IF result # "ok"
     THEN /\ folderPc' = "raised"
          /\ raised' = result
          /\ UNCHANGED <<parentFolder, targetPermissions, changes>>
     ELSE LET clones == CloneParentPermissions(ACO_FOLDER, folderEntity.id, perms)
              target == KeepOwnership(clones.items, folderEntity.permission, keepOwnership)
          IN /\ parentFolder' = perms
             /\ IF clones.err # NoError
                THEN /\ folderPc' = "raised"
                     /\ raised' = clones.err.rule
                     /\ UNCHANGED <<targetPermissions, changes>>
                ELSE IF target.err # NoError
                THEN /\ folderPc' = "raised"
                     /\ raised' = target.err.rule
                     /\ UNCHANGED <<targetPermissions, changes>>
                ELSE /\ folderPc' = "updatePermissions"
                     /\ raised' = raised
                     /\ targetPermissions' = target.items
                     /\ changes' = BuildChangesFromPermissions(currentPermissions, target.items)
  /\ UNCHANGED <<currentPermissions, cache, fetched, returned>>
  /\ Keep

\* The operation has returned or raised and the caller goes on: the record of
\* the operation is dropped, the cache stays.
FolderDone ==
  /\ folderPc \in {"returned", "raised"}
  /\ folderPc' = "idle"
  /\ folderOp' = "none"
  /\ folderEntity' = NoFolder
  /\ parentFolder' = <<>>
  /\ keepOwnership' = "undefined"
  /\ cascade' = "undefined"
  /\ updateStorage' = "undefined"
  /\ currentPermissions' = <<>>
  /\ targetPermissions' = <<>>
  /\ changes' = NoChanges
  /\ trace' = <<>>
  /\ cacheBefore' = {}
  /\ fetched' = {}
  /\ raised' = "none"
  /\ returned' = "none"
  /\ UNCHANGED cache
  /\ UNCHANGED <<collectionVars, unionVars, exportVars, progressVars>>

NextFolder ==
  \/ folderPc = "idle" /\ \E id \in FolderIds : CallCreate(id)
  \/ folderPc = "idle" /\ \E id \in FolderIds : CallUpdate(id)
  \/ folderPc = "idle" /\ \E id \in FolderIds, c \in FlagSet : CallDelete(id, c)
  \/ folderPc = "idle" /\ \E id \in FolderIds, us \in FlagSet : CallUpdatePermissions(id, us)
  \/ folderPc = "idle"
       /\ \E parentId \in {"none", ParentFolder}, permission \in OwnPermissions, keep \in FlagSet :
            CallApply(parentId, permission, keep)
  \/ \E result \in RemoteResults : ServiceCreate(result)
  \/ StorageAddFolder
  \/ \E result \in RemoteResults : ServiceUpdate(result)
  \/ StorageUpdateFolder
  \/ \E result \in RemoteResults : ServiceDelete(result)
  \/ StorageDelete
  \/ \E result \in RemoteResults : ServiceUpdatePermissions(result)
  \/ folderPc = "get" /\ \E result \in RemoteResults, perms \in ParentPermissionSets :
                           ServiceGet(result, perms)
  \/ \E result \in RemoteResults, folders \in SUBSET FolderIds : ServiceFindAll(result, folders)
  \/ StorageSet
  \/ ReturnFolderEntity
  \/ FolderDone

SpecFolder == Init /\ [][NextFolder]_vars

\* ------------------------------------------ vocabulary of the folder claims
Applying == folderOp = "applyPermissionFromParent"

\* The change-set has been built (line 117).
Diffed == Applying /\ changes # NoChanges

\* The folder's own permission, as given with the folder.
OwnPermission == folderEntity.permission.val

KeepsOwnership == keepOwnership \in {"true", "undefined"}

\* The levels the ARO of p has among the parent's permissions and, if withOwn,
\* in the folder's own permission.
LevelsFor(p, withOwn) ==
  {parentFolder[k].type : k \in {n \in Positions(parentFolder) : IsAroMatching(parentFolder[n], p)}}
    \cup (IF withOwn /\ IsAroMatching(OwnPermission, p) THEN {OwnPermission.type} ELSE {})

\* perms is the parent's permissions re-targeted at the folder, united (if
\* withOwn) with the folder's own permission: about the folder, one entry per
\* ARO, each at the highest level of its ARO.
IsTargetOf(perms, withOwn) ==
  /\ \A i \in Positions(perms) :
       /\ perms[i].aco = <<ACO_FOLDER, folderEntity.id>>
       /\ LevelsFor(perms[i], withOwn) # {}
       /\ \A t \in LevelsFor(perms[i], withOwn) : t <= perms[i].type
       /\ perms[i].type \in LevelsFor(perms[i], withOwn)
  /\ \A i, j \in Positions(perms) : IsAroMatching(perms[i], perms[j]) => i = j
  /\ \A k \in Positions(parentFolder) :
       \E i \in Positions(perms) : IsAroMatching(perms[i], parentFolder[k])
  /\ withOwn => \E i \in Positions(perms) : IsAroMatching(perms[i], OwnPermission)

\* C14, as written: whatever keepOwnership is, the target set diffed against
\* the current set is the union of the folder's own permission and the parent's
\* permissions re-targeted at the folder.
C14_Original ==
  Diffed
    => /\ changes.current = <<OwnPermission>>
       /\ changes.target = Values(targetPermissions)
       /\ IsTargetOf(targetPermissions, TRUE)

\* C14, amended: with keepOwnership true or omitted the target set diffed
\* against the current set is that union; with keepOwnership false it is the
\* parent's permissions re-targeted at the folder alone.
C14_TargetIsUnion ==
  Diffed
    => /\ changes.current = <<OwnPermission>>
       /\ changes.target = Values(targetPermissions)
       /\ IsTargetOf(targetPermissions, KeepsOwnership)

\* The example: parent [{User u1, Owner}], own {User u2, Owner}, keepOwnership
\* true, target [{User u1, Owner}, {User u2, Owner}].
C14_Witness ==
  /\ Diffed /\ keepOwnership = "true"
  /\ Len(parentFolder) = 1
  /\ parentFolder[1].aro = <<"User", "u1">> /\ parentFolder[1].type = OWNER
  /\ OwnPermission.aro = <<"User", "u2">> /\ OwnPermission.type = OWNER
  /\ Len(targetPermissions) = 2
  /\ targetPermissions[1].aro = <<"User", "u1">> /\ targetPermissions[1].type = OWNER
  /\ targetPermissions[2].aro = <<"User", "u2">> /\ targetPermissions[2].type = OWNER

\* The change-set was submitted: folderService.updatePermissions was called.
Submitted ==
  Applying /\ \E i \in Positions(trace) : trace[i].call = "folderService.updatePermissions"

\* C15: with keepOwnership true or omitted, a change-set submitted by
\* applyPermissionFromParent was built from a target set with an Owner entry
\* for the ARO of the folder's own permission.
C15_OwnerKeptInTarget ==
  (Submitted /\ KeepsOwnership)
    => \E i \in Positions(changes.target) :
         /\ IsAroMatching(changes.target[i], OwnPermission)
         /\ changes.target[i].type = OWNER

\* A change-set submitted although the parent grants the folder's owner less
\* than Owner.
C15_Witness ==
  /\ Submitted /\ KeepsOwnership
  /\ \E k \in Positions(parentFolder) :
       IsAroMatching(parentFolder[k], OwnPermission) /\ parentFolder[k].type < OWNER

\* The remote calls that change folders on the server.
MutatingCalls ==
  {"folderService.create", "folderService.update", "folderService.delete",
   "folderService.updatePermissions"}

\* The writes to the local folder cache.
CacheWrites ==
  {"FolderLocalStorage.addFolder", "FolderLocalStorage.updateFolder",
   "FolderLocalStorage.delete", "FolderLocalStorage.set"}

WroteCache == \E j \in Positions(trace) : trace[j].call \in CacheWrites

\* Every successful mutating call of the operation has a cache write after it.
CacheWrittenAfterMutation ==
  \A i \in Positions(trace) :
    (trace[i].call \in MutatingCalls /\ trace[i].result = "ok")
      => \E j \in Positions(trace) : j > i /\ trace[j].call \in CacheWrites

Mutated ==
  \E i \in Positions(trace) : trace[i].call \in MutatingCalls /\ trace[i].result = "ok"

\* C16, as written: when an operation returns, each of its successful mutating
\* remote calls was followed by a cache write, whatever cascade and
\* updateStorage were.
C16_Original == folderPc = "returned" => CacheWrittenAfterMutation

\* C16, amended: when an operation returns, each of its successful mutating
\* remote calls was followed by a cache write, whatever cascade was, unless it
\* is updatePermissions called with updateStorage false, which returns without
\* a cache write.
C16_CacheWrittenUnlessDisabled ==
  folderPc = "returned"
    => IF updateStorage = "false"
       THEN ~WroteCache
       ELSE CacheWrittenAfterMutation

\* updatePermissions without the updateStorage argument has returned: remote
\* update, fetch-all, cache write.
C16_Witness ==
  /\ folderPc = "returned"
  /\ folderOp = "updatePermissions"
  /\ updateStorage = "undefined"
  /\ Mutated
  /\ trace[Len(trace)].call = "FolderLocalStorage.set"

\* The mutating remote call of the operation failed.
MutationFailed ==
  \E i \in Positions(trace) : trace[i].call \in MutatingCalls /\ trace[i].result # "ok"

\* C17: when the mutating remote call of an operation fails, the operation
\* ends with that failure raised, the call was issued once, and the operation
\* wrote nothing to the cache.
C17_RemoteFailurePropagates ==
  MutationFailed
    => /\ folderPc = "raised"
       /\ raised = trace[Len(trace)].result
       /\ trace[Len(trace)].call \in MutatingCalls
       /\ Cardinality({i \in Positions(trace) : trace[i].call \in MutatingCalls}) = 1
       /\ ~WroteCache
       /\ cache = cacheBefore

\* A cascading delete whose remote call failed.
C17_Witness ==
  /\ MutationFailed
  /\ folderOp = "delete"
  /\ cascade = "true"
  /\ folderEntity.id \in cache
  /\ raised = "network"

HasParent == folderEntity.folderParentId # "none"

\* The calls of applyPermissionFromParent on a folder with a parent, in order.
ApplyCalls ==
  <<"folderService.get", "folderService.updatePermissions", "folderService.findAll",
    "FolderLocalStorage.set">>

\* The operation is over.
Ended == folderPc \in {"returned", "raised"}

\* The folder's own permission is given and Owner-level.
OwnIsOwner == folderEntity.permission.kind = "entity" /\ OwnPermission.type = OWNER

\* Without a parent: no remote call, no cache write, the entity given returned.
NothingDone ==
  /\ trace = <<>>
  /\ cache = cacheBefore
  /\ raised = "none"
  /\ folderPc = "returned" => returned = "folderEntity"

\* With a parent: the fetch of the parent is made, and the calls are, once
\* each and in order, that fetch, the permission update, the fetch-all and
\* the cache write, each made only after the one before succeeded, and all
\* four made when the operation returns.
CallsInOrder ==
  /\ Ended => trace # <<>>
  /\ Len(trace) <= Len(ApplyCalls)
  /\ \A i \in Positions(trace) :
       /\ trace[i].call = ApplyCalls[i]
       /\ i < Len(trace) => trace[i].result = "ok"
  /\ cache = IF Len(trace) = Len(ApplyCalls) THEN fetched ELSE cacheBefore
  /\ folderPc = "returned"
       => /\ Len(trace) = Len(ApplyCalls)
          /\ trace[Len(trace)].result = "ok"
          /\ returned = "folderEntity"

\* C19, as written: applyPermissionFromParent on a folder without parent makes
\* no remote call and no cache write and returns the entity given; on a folder
\* with a parent it makes the fetch of the parent, the permission update, the
\* fetch-all and the cache write, once each and in this order.
C19_Original == Applying => IF HasParent THEN CallsInOrder ELSE NothingDone

\* C19, amended: the same, where the folder with a parent is one whose own
\* permission is Owner-level.
C19_ApplySequence ==
  Applying => IF HasParent THEN (OwnIsOwner => CallsInOrder) ELSE NothingDone

\* applyPermissionFromParent on a folder with a parent has returned and the
\* cache was replaced by another content.
C19_Witness ==
  /\ Applying /\ HasParent
  /\ folderPc = "returned"
  /\ Len(trace) = 4
  /\ cache # cacheBefore

Deleting == folderOp = "delete"

RemoteDeleted ==
  \E i \in Positions(trace) : trace[i] = Event("folderService.delete", "ok")

CallsOf(events) == [i \in Positions(events) |-> events[i].call]

\* C20: delete removes the folder's cache entry only after the remote delete
\* succeeded; with cascade true a fetch-all follows and its result replaces the
\* cache; with cascade false or omitted there is no fetch-all and the other
\* cache entries stay.
C20_DeleteThenRefresh ==
  Deleting
    => /\ ~RemoteDeleted => (cache = cacheBefore /\ ~WroteCache)
       /\ (RemoteDeleted /\ folderPc # "storageDelete" /\ folderPc # "returned")
            => cache = cacheBefore \ {folderEntity.id}
       /\ cascade = "true"
            => /\ \A i \in Positions(trace) :
                    trace[i].call = "folderService.findAll"
                      => (i = 3 /\ trace[2].call = "FolderLocalStorage.delete")
               /\ folderPc = "returned"
                    => /\ CallsOf(trace) = <<"folderService.delete", "FolderLocalStorage.delete",
                                             "folderService.findAll", "FolderLocalStorage.set">>
                       /\ cache = fetched
       /\ cascade # "true"
            => /\ \A i \in Positions(trace) : trace[i].call # "folderService.findAll"
               /\ folderPc = "returned" => cache = cacheBefore \ {folderEntity.id}

\* A cascading delete has returned and the cache holds what the fetch-all
\* gave, which is not what the removal of the one entry left.
C20_Witness ==
  /\ Deleting /\ cascade = "true"
  /\ folderPc = "returned"
  /\ folderEntity.id \in cacheBefore
  /\ cache = fetched
  /\ cache # cacheBefore \ {folderEntity.id}

\* ------------------------------------------- ResourceExportController.exec
\* What progressController.js exports.
ProgressControllerExports == {"start", "complete", "update", "updateGoals"}

\* progressController.<name> is a function; calling anything else throws a
\* TypeError.
IsFunction(name) == name \in ProgressControllerExports

\* The workers exec is called by: a tab, and whether a pageMod is attached.
Workers == [tab : {"t1", "t2"}, legacy : BOOLEAN]

ResourceIdSets == SUBSET {"r1", "r2", "r3"}

\* What LegacyResourceService.findAllByResourcesIds answers.
FindAnswers == {"ok", "network", "api"}

Did(what, detail) == [what |-> what, detail |-> detail]

\* The try block with its catch (lines 365-374): what exec does, in order.  A
\* throw or a rejected await goes to the catch, which logs the error.
TryBlock(w, ids, answer) ==
  IF ~IsFunction("open") THEN <<Did("console.error", "TypeError")>>
  ELSE
    <<Did("progressController.open", w.tab), Did("findAllByResourcesIds", answer)>> \o
      (IF answer # "ok" THEN <<Did("console.error", answer)>>
       ELSE IF ~IsFunction("close") THEN <<Did("console.error", "TypeError")>>
       ELSE <<Did("progressController.close", w.tab),
              Did("TabStorage.set", w.tab),
              Did("emit", "passbolt.export-passwords.open-dialog")>>)

\* The finally block (lines 374-376): the close requested, or the error thrown
\* by the call.
FinallyBlock(w) ==
  IF ~IsFunction("close") THEN [log |-> <<>>, error |-> "TypeError"]
  ELSE [log |-> <<Did("progressController.close", w.tab)>>, error |-> "none"]

\* ResourceExportController.exec(w, ids)
CallExec(w, ids, answer) ==
  /\ exportPc = "idle"
  /\ exportPc' = "try"
  /\ worker' = w
  /\ resourcesIds' = ids
  /\ findAnswer' = answer
  /\ UNCHANGED <<exportLog, exportError>>
  /\ UNCHANGED <<collectionVars, unionVars, folderVars, progressVars>>

\* try { ... } catch (error) { console.error(error) }
ExecTry ==
  /\ exportPc = "try"
  /\ exportPc' = "finally"
  /\ exportLog' = exportLog \o TryBlock(worker, resourcesIds, findAnswer)
  /\ UNCHANGED <<worker, resourcesIds, findAnswer, exportError>>
  /\ UNCHANGED <<collectionVars, unionVars, folderVars, progressVars>>

\* finally { await progressController.close(worker) }
ExecFinally ==
  /\ exportPc = "finally"
  /\ exportPc' = "ended"
  /\ exportLog' = exportLog \o FinallyBlock(worker).log
  /\ exportError' = FinallyBlock(worker).error
  /\ UNCHANGED <<worker, resourcesIds, findAnswer>>
  /\ UNCHANGED <<collectionVars, unionVars, folderVars, progressVars>>

\* The caller goes on after exec resolved or rejected.
ExecDone ==
  /\ exportPc = "ended"
  /\ exportPc' = "idle"
  /\ worker' = NoWorker
  /\ resourcesIds' = {}
  /\ findAnswer' = "none"
  /\ exportLog' = <<>>
  /\ exportError' = "none"
  /\ UNCHANGED <<collectionVars, unionVars, folderVars, progressVars>>

NextExport ==
  \/ exportPc = "idle"
       /\ \E w \in Workers, ids \in ResourceIdSets, answer \in FindAnswers : CallExec(w, ids, answer)
  \/ ExecTry
  \/ ExecFinally
  \/ ExecDone

SpecExport == Init /\ [][NextExport]_vars

\* ------------------------------------------ vocabulary of the export claim
Logged(what) == \E i \in Positions(exportLog) : exportLog[i].what = what

\* C18: when exec has ended, whether the fetch succeeded or failed, the last
\* thing it did was to request the closing of the progress dialog and it
\* raised nothing; the resources were stored for the tab and the open-dialog
\* event emitted only if the fetch succeeded.
C18_CloseRequestedLast ==
  exportPc = "ended"
    => /\ exportLog # <<>>
       /\ exportLog[Len(exportLog)] = Did("progressController.close", worker.tab)
       /\ exportError = "none"
       /\ (Logged("TabStorage.set") \/ Logged("emit")) => findAnswer = "ok"

\* --------------------------------------------------------------------- C22
\* The errors a push or addOrReplace call can raise.
RaisedRules ==
  {TYPE_ERROR, VALIDATION_ERROR, RULE_SAME_ACO, RULE_UNIQUE_ID, RULE_UNIQUE_ARO}

\* C22: a push or addOrReplace call that raises leaves the members of the
\* collection, their levels and their order as they were before the call.
C22_FailureAtomicity ==
  ((Called("push") \/ Called("addOrReplace")) /\ err # NoError)
    => /\ err.rule \in RaisedRules
       /\ items = before

\* An addOrReplace on a two-member collection that raised UNIQUE_ID for a
\* member of another ARO.
C22_Witness ==
  /\ Called("addOrReplace")
  /\ err.rule = RULE_UNIQUE_ID
  /\ Len(before) = 2
  /\ items = before

\* ------------------------------------------------------ progressController
\* Most calls made to the progress controller in a row.
MaxCalls == 3

\* isLegacyWorker: a pageMod is attached to the worker.
IsLegacyWorker(w) == w.legacy

\* Worker.get(name, tabId): the worker of that name in that tab.
WorkerGet(name, tabId) == [name |-> name, tab |-> tabId]

\* The source worker itself, as the receiver of an event.
Self(w) == [name |-> "source", tab |-> w.tab]

\* Mutant: the events always go to the source worker.
M_GetProgressWorkerSelf(srcWorker) == Self(srcWorker)

\* getProgressWorker
GetProgressWorker(srcWorker) ==
  IF IsLegacyWorker(srcWorker) THEN WorkerGet("ReactApp", srcWorker.tab) ELSE Self(srcWorker)

\* receiver.port.emit(event, ...)
Emit(to, event) == [to |-> to, event |-> event]

\* start(worker, title, goals, message)
StartEmits(w) ==
  (IF IsLegacyWorker(w) THEN <<Emit(WorkerGet("App", w.tab), "passbolt.app.show")>> ELSE <<>>)
    \o <<Emit(GetProgressWorker(w), "passbolt.progress.start")>>

\* complete(worker)
CompleteEmits(w) ==
  <<Emit(GetProgressWorker(w), "passbolt.progress.complete")>>
    \o (IF IsLegacyWorker(w) THEN <<Emit(WorkerGet("App", w.tab), "passbolt.app.hide")>> ELSE <<>>)

\* update(worker, completed, message)
UpdateEmits(w) == <<Emit(GetProgressWorker(w), "passbolt.progress.update")>>

\* updateGoals(worker, goals)
UpdateGoalsEmits(w) == <<Emit(GetProgressWorker(w), "passbolt.progress.update-goals")>>

\* A call of start: recorded with what it emitted.
Start(w) ==
  /\ Len(progressCalls) < MaxCalls
  /\ progressCalls' = Append(progressCalls, [fn |-> "start", worker |-> w])
  /\ emitted' = Append(emitted, StartEmits(w))
  /\ UNCHANGED <<collectionVars, unionVars, folderVars, exportVars>>

\* A call of complete.
Complete(w) ==
  /\ Len(progressCalls) < MaxCalls
  /\ progressCalls' = Append(progressCalls, [fn |-> "complete", worker |-> w])
  /\ emitted' = Append(emitted, CompleteEmits(w))
  /\ UNCHANGED <<collectionVars, unionVars, folderVars, exportVars>>

\* A call of update.
Update(w) ==
  /\ Len(progressCalls) < MaxCalls
  /\ progressCalls' = Append(progressCalls, [fn |-> "update", worker |-> w])
  /\ emitted' = Append(emitted, UpdateEmits(w))
  /\ UNCHANGED <<collectionVars, unionVars, folderVars, exportVars>>

\* A call of updateGoals.
UpdateGoals(w) ==
  /\ Len(progressCalls) < MaxCalls
  /\ progressCalls' = Append(progressCalls, [fn |-> "updateGoals", worker |-> w])
  /\ emitted' = Append(emitted, UpdateGoalsEmits(w))
  /\ UNCHANGED <<collectionVars, unionVars, folderVars, exportVars>>

NextProgress ==
  \/ \E w \in Workers : Start(w)
  \/ \E w \in Workers : Complete(w)
  \/ \E w \in Workers : Update(w)
  \/ \E w \in Workers : UpdateGoals(w)

SpecProgress == Init /\ [][NextProgress]_vars

\* --------------------------------------------------------------------- C21
\* The event a call of fn emits to the progress dialog.
ProgressEventOf(fn) ==
  CASE fn = "start" -> "passbolt.progress.start"
    [] fn = "complete" -> "passbolt.progress.complete"
    [] fn = "update" -> "passbolt.progress.update"
    [] fn = "updateGoals" -> "passbolt.progress.update-goals"

\* C21: for a source worker with a pageMod, start emits app.show to the tab's
\* App worker and then progress.start to the tab's ReactApp worker, complete
\* emits progress.complete to the ReactApp worker and then app.hide to the App
\* worker, update and updateGoals emit to the ReactApp worker; for a source
\* worker without pageMod each call emits its one progress event to the
\* source worker itself, and app.show and app.hide are never emitted.
C21_ProgressRouting ==
  /\ Len(emitted) = Len(progressCalls)
  /\ \A k \in Positions(progressCalls) :
       LET fn == progressCalls[k].fn
           w == progressCalls[k].worker
           app == [name |-> "App", tab |-> w.tab]
           react == [name |-> "ReactApp", tab |-> w.tab]
           self == [name |-> "source", tab |-> w.tab]
       IN IF w.legacy
          THEN emitted[k] =
                 CASE fn = "start" ->
                        <<[to |-> app, event |-> "passbolt.app.show"],
                          [to |-> react, event |-> "passbolt.progress.start"]>>
                   [] fn = "complete" ->
                        <<[to |-> react, event |-> "passbolt.progress.complete"],
                          [to |-> app, event |-> "passbolt.app.hide"]>>
                   [] OTHER -> <<[to |-> react, event |-> ProgressEventOf(fn)]>>
          ELSE emitted[k] = <<[to |-> self, event |-> ProgressEventOf(fn)]>>

\* A progression of a legacy worker: started, updated, completed in one tab.
C21_Witness ==
  /\ Len(progressCalls) = 3
  /\ \A k \in 1..3 : progressCalls[k].worker = [tab |-> "t1", legacy |-> TRUE]
  /\ progressCalls[1].fn = "start"
  /\ progressCalls[2].fn = "update"
  /\ progressCalls[3].fn = "complete"
  /\ Len(emitted[1]) = 2 /\ Len(emitted[3]) = 2
====
